---- MODULE Spec2Model ----
(***************************************************************************)
(* Model of the polling file watcher of src/watcher.go: the control        *)
(* signals (stop, kill), the polling goroutines spawned by Start, the      *)
(* scan-diff-emit cycle of loop and the consumer of Config.Changes.        *)
(***************************************************************************)
EXTENDS Integers, FiniteSets, Sequences, TLC

(* ------------------------------ bounds --------------------------------- *)

\* Number of polling goroutines (and so of stop channels made by Start).
MaxTasks == 2

(* --------------------------- scan results ------------------------------ *)

MatchInfo(p, t, s) == [Path |-> p, ModTime |-> t, MatchedOn |-> s]

\* ScanResult{} / a scan of a directory without matching files.
EmptyScan == [p \in {} |-> MatchInfo("", 0, "")]

SnapA == "f1.txt" :> MatchInfo("f1.txt", 1, ".txt")

SnapB == ("f1.txt" :> MatchInfo("f1.txt", 2, ".txt"))
         @@ ("f2.cfg" :> MatchInfo("f2.cfg", 3, ".cfg"))

\* The snapshots config.ScanFunc returns in the lifecycle specification.
ScanSnapshots == {EmptyScan, SnapA, SnapB}

(* ------------------------------ errors --------------------------------- *)

\* An error value: the dynamic type of the interface value, and the fields of
\* the ScanError it is or points to.
NilErr == [dyn |-> "nil", reason |-> "", rootReadFailed |-> FALSE]

\* &ScanError{reason: err.Error(), rootReadFailed: true}, the error of
\* ScanFilesInDirectory and ScanFilesInSubdirectories when ioutil.ReadDir of
\* the root fails: a pointer to a ScanError.
RootReadFailure ==
    [dyn |-> "*ScanError",
     reason |-> "open /watched: no such file or directory",
     rootReadFailed |-> TRUE]

\* The errors config.ScanFunc returns.
ScanErrors == {RootReadFailure}

\* What a call of config.ScanFunc returns: (ScanResult, error).
Returns(scan, err) == [scan |-> scan, err |-> err]

\* The returns of a scan function that finds one of the snapshots of snaps or
\* fails to read the root.
ScanReturns(snaps) ==
    {Returns(sn, NilErr) : sn \in snaps} \cup {Returns(EmptyScan, e) : e \in ScanErrors}

(* ------------------------------ Config --------------------------------- *)

\* unicode.IsSpace on the characters of the modelled paths.
IsSpace(ch) == ch \in {" ", "\t", "\n"}

\* strings.TrimSpace: the string without its leading and trailing white space.
RECURSIVE TrimLeft(_)
TrimLeft(str) ==
    IF str # <<>> /\ IsSpace(Head(str)) THEN TrimLeft(Tail(str)) ELSE str

RECURSIVE TrimRight(_)
TrimRight(str) ==
    IF str # <<>> /\ IsSpace(str[Len(str)])
    THEN TrimRight(SubSeq(str, 1, Len(str) - 1))
    ELSE str

TrimSpace(str) == TrimRight(TrimLeft(str))

\* The scan functions of the configurations: what the calls of each can
\* return. A func value is a reference to one of them, or nil.
ScanFuncs ==
    <<ScanReturns(ScanSnapshots),
      ScanReturns({EmptyScan}), ScanReturns({SnapA}), ScanReturns({SnapB}),
      {Returns(SnapA, NilErr)}, {Returns(SnapB, NilErr)}>>

\* A nil func value, and a scan function given by what its calls can return.
NilFunc == [isNil |-> TRUE, fn |-> 0]

ScanFuncOf(returns) ==
    [isNil |-> FALSE, fn |-> CHOOSE i \in DOMAIN ScanFuncs : ScanFuncs[i] = returns]

\* What a call of the func value f can return.
ReturnsOf(f) == IF f.isNil THEN {} ELSE ScanFuncs[f.fn]

\* IsValid without its last check.
IsValidNoScanFuncCheck(c) ==
    IF Len(TrimSpace(c.RootDirPath)) = 0
    THEN "the directory path to watch cannot not be empty"
    ELSE IF Len(c.ScanCriteria) = 0
    THEN "the file suffixes to match cannot not be empty"
    ELSE IF c.Changes = "nil"
    THEN "the changes channel cannot be nil"
    ELSE "nil"

\* Config.IsValid: the message of the error it returns, "nil" for no error.
IsValid(c) ==
    IF Len(TrimSpace(c.RootDirPath)) = 0
    THEN "the directory path to watch cannot not be empty"
    ELSE IF Len(c.ScanCriteria) = 0
    THEN "the file suffixes to match cannot not be empty"
    ELSE IF c.Changes = "nil"
    THEN "the changes channel cannot be nil"
    ELSE IF c.ScanFunc.isNil
    THEN "the scan function cannot be nil"
    ELSE "nil"

\* Root paths, as sequences of characters: empty, blank, plain.
RootDirPaths == {<<>>, <<" ", "\t">>, <<"/", "d">>}

ScanCriterias == {<<>>, <<".txt", ".cfg">>}

\* The configurations NewWatcher is called with.
Configs ==
    [RootDirPath : RootDirPaths,
     ScanCriteria : ScanCriterias,
     Changes : {"nil", "chan"},
     ScanFunc : {NilFunc, ScanFuncOf(ScanReturns(ScanSnapshots))}]

\* The configuration of the lifecycle specification.
WatchedConfig ==
    [RootDirPath |-> <<"/", "d">>,
     ScanCriteria |-> <<".txt", ".cfg">>,
     Changes |-> "chan",
     ScanFunc |-> ScanFuncOf(ScanReturns(ScanSnapshots))]

\* Configurations whose scan function finds the same snapshot in every scan
\* that succeeds.
SameScanConfigs ==
    {[WatchedConfig EXCEPT !.ScanFunc = ScanFuncOf(ScanReturns({sn}))] :
        sn \in ScanSnapshots}

\* Config{}, the zero value: what stands for the parameter of a goroutine
\* that does not run.
ZeroConfig ==
    [RootDirPath |-> <<>>, ScanCriteria |-> <<>>, Changes |-> "nil", ScanFunc |-> NilFunc]

\* The scan functions a caller assigns to w.Config().ScanFunc, each finding
\* its own snapshot in every scan, and the strings the caller writes to
\* w.Config().ScanCriteria[0].
AssignedScanFuncs ==
    {ScanFuncOf({Returns(SnapA, NilErr)}), ScanFuncOf({Returns(SnapB, NilErr)})}

WrittenCriteria == {".txt", ".log"}

\* The configurations a watcher has while its caller changes them through
\* Config().
ChangedConfigs ==
    {[WatchedConfig EXCEPT !.ScanFunc = f, !.ScanCriteria[1] = c] :
        f \in AssignedScanFuncs, c \in WrittenCriteria}

(* ------------------------------ Differ --------------------------------- *)

\* The first loop without the files that are new.
UpdatedPathsKnown(current, prev) ==
    {p \in DOMAIN current :
        p \in DOMAIN prev /\ current[p].ModTime # prev[p].ModTime}

\* The first loop without its comparison with o.last.
UpdatedPathsAll(current, prev) == DOMAIN current

\* The paths the first loop of a cycle appends to stateToInfo[updated].
UpdatedPaths(current, prev) ==
    {p \in DOMAIN current :
        ~(p \in DOMAIN prev /\ current[p].ModTime = prev[p].ModTime)}

\* The second loop without its look-up in current.
DeletedPathsAll(current, prev) == DOMAIN prev

\* The paths the second loop of a cycle appends to stateToInfo[deleted].
DeletedPaths(current, prev) ==
    {p \in DOMAIN prev : p \notin DOMAIN current}

\* change := &defaultChange{...}: no error, empty stateToInfo.  The two slices
\* of stateToInfo are kept as the sets of their elements: the loops append in
\* the order in which Go ranges over the maps, which is any order, and nothing
\* reads that order before the consumer has the report.
NoChange == [err |-> NilErr, updated |-> {}, deleted |-> {}]

\* len(change.stateToInfo): a key exists once something was appended to it.
LenStateToInfo(c) ==
    (IF c.updated # {} THEN 1 ELSE 0) + (IF c.deleted # {} THEN 1 ELSE 0)

\* A cycle that sends its report whatever the diff is.
PublishesAlways(stateToInfo) == TRUE

\* if len(change.stateToInfo) > 0 { config.Changes <- change }, for the lists
\* of the two keys of the map.
PublishesChange(stateToInfo) ==
    (IF stateToInfo.updated # <<>> THEN 1 ELSE 0)
    + (IF stateToInfo.deleted # <<>> THEN 1 ELSE 0) > 0

(* --------------------------- Change Report ----------------------------- *)

IsErr(c) == c.err # NilErr

\* sErr, is := o.err.(ScanError): the assertion holds for an error whose
\* dynamic type is ScanError, not for a pointer to one.
RootReadErr(c) ==
    IF c.err # NilErr
    THEN c.err.dyn = "ScanError" /\ c.err.rootReadFailed
    ELSE FALSE

\* ErrDetails without the text of the error.
ErrDetailsNoReason(c) == ""

ErrDetails(c) == IF c.err # NilErr THEN c.err.reason ELSE ""

\* The paths of stateToInfo[updated] and of stateToInfo[deleted].
UpdatedFilePaths(c) == {i.Path : i \in c.updated}

DeletedFilePaths(c) == {i.Path : i \in c.deleted}

(* ----------------------- the loops of a cycle -------------------------- *)

\* The elements of a list.
Range(list) == {list[i] : i \in 1..Len(list)}

\* The orders in which a range over a map with these keys can give them.
KeyOrders(keys) ==
    {o \in [1..Cardinality(keys) -> keys] :
        \A i, j \in 1..Cardinality(keys) : o[i] = o[j] => i = j}

\* The first loop without the files that are new.
RECURSIVE UpdatedLoopKnown(_, _, _)
UpdatedLoopKnown(order, current, prev) ==
    IF order = <<>> THEN <<>>
    ELSE LET p == Head(order)
             rest == UpdatedLoopKnown(Tail(order), current, prev)
         IN  IF p \in DOMAIN prev /\ current[p].ModTime # prev[p].ModTime
             THEN <<current[p]>> \o rest
             ELSE rest

\* The first loop without the files whose ModTime has changed.
RECURSIVE UpdatedLoopNewOnly(_, _, _)
UpdatedLoopNewOnly(order, current, prev) ==
    IF order = <<>> THEN <<>>
    ELSE LET p == Head(order)
             rest == UpdatedLoopNewOnly(Tail(order), current, prev)
         IN  IF p \in DOMAIN prev THEN rest ELSE <<current[p]>> \o rest

\* for currentFilePath, current := range current.FilePathsToInfo, the keys
\* coming in the given order: the list appended to stateToInfo[updated].
RECURSIVE UpdatedLoop(_, _, _)
UpdatedLoop(order, current, prev) ==
    IF order = <<>> THEN <<>>
    ELSE LET p == Head(order)
             rest == UpdatedLoop(Tail(order), current, prev)
         IN  IF p \in DOMAIN prev /\ current[p].ModTime = prev[p].ModTime
             THEN rest
             ELSE <<current[p]>> \o rest

\* The second loop appending the entry without its matched suffix.
RECURSIVE DeletedLoopPathOnly(_, _, _)
DeletedLoopPathOnly(order, current, prev) ==
    IF order = <<>> THEN <<>>
    ELSE LET p == Head(order)
             rest == DeletedLoopPathOnly(Tail(order), current, prev)
         IN  IF p \notin DOMAIN current
             THEN <<MatchInfo(p, prev[p].ModTime, "")>> \o rest
             ELSE rest

\* for lastFilePath, info := range o.last.FilePathsToInfo, the keys coming in
\* the given order: the list appended to stateToInfo[deleted].
RECURSIVE DeletedLoop(_, _, _)
DeletedLoop(order, current, prev) ==
    IF order = <<>> THEN <<>>
    ELSE LET p == Head(order)
             rest == DeletedLoop(Tail(order), current, prev)
         IN  IF p \notin DOMAIN current
             THEN <<prev[p]>> \o rest
             ELSE rest

(* ----------------------- Change Report accessors ----------------------- *)

\* for _, c := range list { r = append(r, c.Path) }
RECURSIVE FilePaths(_)
FilePaths(list) ==
    IF list = <<>> THEN <<>> ELSE <<Head(list).Path>> \o FilePaths(Tail(list))

\* The inner loop over suffixes: whether c.MatchedOn == suffixes[i] for an i.
RECURSIVE MatchedOnOneOf(_, _)
MatchedOnOneOf(c, suffixes) ==
    IF suffixes = <<>> THEN FALSE
    ELSE IF c.MatchedOn = Head(suffixes) THEN TRUE
    ELSE MatchedOnOneOf(c, Tail(suffixes))

\* WithSuffixes without its comparison of c.MatchedOn.
FilePathsWithSuffixesAll(list, suffixes) == FilePaths(list)

\* UpdatedFilePathsWithSuffixes and DeletedFilePathsWithSuffixes on their list.
RECURSIVE FilePathsWithSuffixes(_, _)
FilePathsWithSuffixes(list, suffixes) ==
    IF list = <<>> THEN <<>>
    ELSE (IF MatchedOnOneOf(Head(list), suffixes) THEN <<Head(list).Path>> ELSE <<>>)
         \o FilePathsWithSuffixes(Tail(list), suffixes)

\* UpdatedFilePathsWithoutSuffixes and DeletedFilePathsWithoutSuffixes on
\* their list.
RECURSIVE FilePathsWithoutSuffixes(_, _)
FilePathsWithoutSuffixes(list, suffixes) ==
    IF list = <<>> THEN <<>>
    ELSE (IF MatchedOnOneOf(Head(list), suffixes) THEN <<>> ELSE <<Head(list).Path>>)
         \o FilePathsWithoutSuffixes(Tail(list), suffixes)

(* --------------------------- matchesSuffixes --------------------------- *)

\* strings.HasSuffix on sequences of characters.
HasSuffix(str, suffix) ==
    /\ Len(str) >= Len(suffix)
    /\ SubSeq(str, Len(str) - Len(suffix) + 1, Len(str)) = suffix

\* matchesSuffixes going through the list from its end.
RECURSIVE matchesSuffixesLast(_, _)
matchesSuffixesLast(str, suffixes) ==
    IF suffixes = <<>> THEN [suffix |-> <<>>, matches |-> FALSE]
    ELSE IF HasSuffix(str, suffixes[Len(suffixes)])
    THEN [suffix |-> suffixes[Len(suffixes)], matches |-> TRUE]
    ELSE matchesSuffixesLast(str, SubSeq(suffixes, 1, Len(suffixes) - 1))

\* matchesSuffixes: the pair (string, bool) it returns.
RECURSIVE matchesSuffixes(_, _)
matchesSuffixes(str, suffixes) ==
    IF suffixes = <<>> THEN [suffix |-> <<>>, matches |-> FALSE]
    ELSE IF HasSuffix(str, Head(suffixes))
    THEN [suffix |-> Head(suffixes), matches |-> TRUE]
    ELSE matchesSuffixes(str, Tail(suffixes))

(* --------------------------- scan functions ---------------------------- *)

\* What ioutil.ReadDir gives for a path that cannot be listed (it does not
\* exist, is a file, or may not be read): an error and no entries.
Unreadable == [err |-> TRUE, infos |-> <<>>]

\* The os.FileInfo of an entry of a directory; dir is what ioutil.ReadDir gives
\* for the path of the entry.
FileInfo(name, isDir, modTime, dir) ==
    [Name |-> name, IsDir |-> isDir, ModTime |-> modTime, dir |-> dir]

\* path.Join of a directory path and a name; both are clean, so that the
\* path.Clean of the result changes nothing, and empty elements are ignored.
Join(dirPath, name) ==
    IF dirPath = <<>> THEN name
    ELSE IF name = <<>> THEN dirPath
    ELSE dirPath \o <<"/">> \o name

\* The loop of ScanFilesInDirectory without its test of sub.IsDir().
RECURSIVE ScanDirLoopWithDirs(_, _, _, _)
ScanDirLoopWithDirs(subInfos, rootDirPath, suffixes, result) ==
    IF subInfos = <<>> THEN result
    ELSE LET sub == Head(subInfos)
             m == matchesSuffixes(sub.Name, suffixes)
             filePath == Join(rootDirPath, sub.Name)
         IN  IF ~m.matches
             THEN ScanDirLoopWithDirs(Tail(subInfos), rootDirPath, suffixes, result)
             ELSE ScanDirLoopWithDirs(Tail(subInfos), rootDirPath, suffixes,
                      (filePath :> MatchInfo(filePath, sub.ModTime, m.suffix)) @@ result)

\* The loop of ScanFilesInDirectory over the entries of the root: result is
\* result.FilePathsToInfo.
RECURSIVE ScanDirLoop(_, _, _, _)
ScanDirLoop(subInfos, rootDirPath, suffixes, result) ==
    IF subInfos = <<>> THEN result
    ELSE LET sub == Head(subInfos)
             m == matchesSuffixes(sub.Name, suffixes)
             filePath == Join(rootDirPath, sub.Name)
         IN  IF sub.IsDir \/ ~m.matches
             THEN ScanDirLoop(Tail(subInfos), rootDirPath, suffixes, result)
             ELSE ScanDirLoop(Tail(subInfos), rootDirPath, suffixes,
                      (filePath :> MatchInfo(filePath, sub.ModTime, m.suffix)) @@ result)

\* ScanFilesInDirectory(config), root being what ioutil.ReadDir gives for
\* config.RootDirPath.
ScanFilesInDirectory(config, root) ==
    IF root.err THEN Returns(EmptyScan, RootReadFailure)
    ELSE Returns(ScanDirLoop(root.infos, config.RootDirPath, config.FileSuffixes,
                             EmptyScan),
                 NilErr)

\* The inner loop of ScanFilesInSubdirectories over the entries of one
\* subdirectory.
RECURSIVE ChildrenLoop(_, _, _, _)
ChildrenLoop(children, subDirPath, suffixes, result) ==
    IF children = <<>> THEN result
    ELSE LET c == Head(children)
             m == matchesSuffixes(c.Name, suffixes)
             cPath == Join(subDirPath, c.Name)
         IN  IF c.IsDir \/ ~m.matches
             THEN ChildrenLoop(Tail(children), subDirPath, suffixes, result)
             ELSE ChildrenLoop(Tail(children), subDirPath, suffixes,
                      (cPath :> MatchInfo(cPath, c.ModTime, m.suffix)) @@ result)

\* The outer loop of ScanFilesInSubdirectories over the entries of the root.
RECURSIVE SubdirsLoop(_, _, _, _)
SubdirsLoop(subInfos, rootDirPath, suffixes, result) ==
    IF subInfos = <<>> THEN result
    ELSE LET sub == Head(subInfos)
             subDirPath == Join(rootDirPath, sub.Name)
         IN  IF ~sub.IsDir \/ sub.dir.err
             THEN SubdirsLoop(Tail(subInfos), rootDirPath, suffixes, result)
             ELSE SubdirsLoop(Tail(subInfos), rootDirPath, suffixes,
                      ChildrenLoop(sub.dir.infos, subDirPath, suffixes, result))

\* A scan of the subdirectories that scans the root itself.
ScanFilesInSubdirectoriesOfNone(config, root) == ScanFilesInDirectory(config, root)

\* ScanFilesInSubdirectories(config), root being what ioutil.ReadDir gives for
\* config.RootDirPath.
ScanFilesInSubdirectories(config, root) ==
    IF root.err THEN Returns(EmptyScan, RootReadFailure)
    ELSE Returns(SubdirsLoop(root.infos, config.RootDirPath, config.FileSuffixes,
                             EmptyScan),
                 NilErr)

(* ------------------------------- delay --------------------------------- *)

\* defaultRefreshDelay = 10 * time.Second; durations are counted in seconds.
defaultRefreshDelay == 10

\* The delay without the default.
LoopDelayAsConfigured(refreshDelay) == refreshDelay

\* The delay loop sleeps for, given config.RefreshDelay.
LoopDelay(refreshDelay) ==
    IF refreshDelay > 0 THEN refreshDelay ELSE defaultRefreshDelay

(* ------------------------------- state --------------------------------- *)

VARIABLES
    call,       \* a call of one of the functions without state: its arguments
                \* and, once it has returned, what it returned
    config,     \* the Config NewWatcher was called with
    newErr,     \* the error NewWatcher returned: a message, or "nil"
    kill,       \* o.kill: "open" or "closed"
    stop,       \* o.stop: the identity of the current stop channel
    closedStops,\* the stop channels that have been closed
    last,       \* o.last
    changes,    \* config.Changes: "open" or "closed"
    pc,         \* position of each polling goroutine
    born,       \* the value of o.stop when the goroutine was spawned
    seen,       \* the newest value of o.stop a goroutine has read
    cur,        \* current, the scan result of the cycle
    change,     \* change, the report of the cycle
    panicked,   \* the program panicked (close of a closed channel, send on one,
                \* a call on the watcher of a failed NewWatcher)
    noop,       \* the control call that was the last step, if it returned early
    atKill,     \* what Destroy found when it closed kill: the goroutines alive,
                \* and whether the stop channel was open (the watcher running)
    cfg         \* config, the parameter of loop, of each polling goroutine

vars == <<call, config, newErr, kill, stop, closedStops, last, changes, pc, born, seen,
          cur, change, panicked, noop, atKill, cfg>>

\* The state of the program, without the two history variables.
prog == <<kill, stop, closedStops, last, changes, pc, born, seen, cur, change, panicked>>

Tasks == 1..MaxTasks

Alive(t) == pc[t] \notin {"none", "done"}

LiveTasks == {t \in Tasks : Alive(t)}

Spawned == {t \in Tasks : pc[t] # "none"}

\* NewWatcher(c): the error of c.IsValid() and, if there is none, a watcher
\* whose kill and stop are made, stop is closed and last is the zero value.
\* With an error it returns &defaultWatcher{}, whose mutex and channels are
\* nil: no method of it gets past o.mutex.Lock().
NewWatcher(c) ==
    /\ config = c
    /\ newErr = IsValid(c)
    /\ kill = "open"
    /\ stop = 0
    /\ closedStops = {0}
    /\ last = EmptyScan
    /\ changes = "open"
    /\ pc = [t \in Tasks |-> "none"]
    /\ born = [t \in Tasks |-> 0]
    /\ seen = [t \in Tasks |-> 0]
    /\ cur = [t \in Tasks |-> EmptyScan]
    /\ change = [t \in Tasks |-> NoChange]
    /\ panicked = FALSE
    /\ noop = "none"
    /\ atKill = [live |-> {}, running |-> FALSE]
    /\ cfg = [t \in Tasks |-> ZeroConfig]

\* No call of a function without state is looked at.
NoCall == [fn |-> "none"]

Init == NewWatcher(WatchedConfig) /\ call = NoCall

\* Any configuration.
ConfigInit == (\E c \in Configs : NewWatcher(c)) /\ call = NoCall

\* A valid configuration whose successful scans all find the same snapshot.
SameScanInit == (\E c \in SameScanConfigs : NewWatcher(c)) /\ call = NoCall

\* o.mutex.Lock() on the watcher of a failed NewWatcher: the mutex is nil.
NilMutexLock ==
    /\ panicked' = TRUE
    /\ noop' = "none"
    /\ UNCHANGED <<kill, stop, closedStops, last, changes, pc, born, seen, cur, change, atKill,
                   cfg>>

(* ----------------------------- Start ----------------------------------- *)

\* Start without its default case: a Start on a running watcher goes on to
\* the go statement.
StartSelectNoDefault(killClosed, stopClosed) ==
    IF killClosed THEN {"kill"} ELSE {"stop"}

\* The cases of the select of Start that can proceed.
StartSelect(killClosed, stopClosed) ==
    IF killClosed \/ stopClosed
    THEN (IF killClosed THEN {"kill"} ELSE {}) \cup (IF stopClosed THEN {"stop"} ELSE {})
    ELSE {"default"}

\* The goroutine the next go statement starts.
NextTask == Cardinality(Spawned) + 1

Start ==
    /\ ~panicked
    /\ UNCHANGED <<call, config, newErr>>
    /\ IF newErr # "nil" THEN NilMutexLock ELSE
       /\ \E branch \in StartSelect(kill = "closed", stop \in closedStops) :
            \/ /\ branch \in {"kill", "default"}
               /\ noop' = "Start"
               /\ UNCHANGED <<stop, pc, born, seen, cfg>>
            \/ /\ branch = "stop"
               /\ NextTask \in Tasks
               /\ stop' = IF stop \in closedStops THEN stop + 1 ELSE stop
               /\ pc' = [pc EXCEPT ![NextTask] = "sleep"]
               /\ born' = [born EXCEPT ![NextTask] = stop']
               /\ seen' = [seen EXCEPT ![NextTask] = stop']
               /\ cfg' = [cfg EXCEPT ![NextTask] = config]
               /\ noop' = "none"
       /\ UNCHANGED <<kill, closedStops, last, changes, cur, change, panicked, atKill>>

(* ------------------------------ Stop ----------------------------------- *)

\* Stop without the check of the stop channel: it always closes it.
StopSelectNoCheck(stopClosed) == {"default"}

\* The cases of the select of Stop that can proceed.
StopSelect(stopClosed) == IF stopClosed THEN {"stop"} ELSE {"default"}

\* close(c) of a channel in the set closed: a second close panics.
CloseOf(c, closed) == [closed |-> closed \cup {c}, panics |-> c \in closed]

Stop ==
    /\ ~panicked
    /\ UNCHANGED <<call, config, newErr>>
    /\ IF newErr # "nil" THEN NilMutexLock ELSE
       /\ \E branch \in StopSelect(stop \in closedStops) :
            \/ /\ branch = "stop"
               /\ noop' = "Stop"
               /\ UNCHANGED <<closedStops, panicked>>
            \/ /\ branch = "default"
               /\ closedStops' = CloseOf(stop, closedStops).closed
               /\ panicked' = CloseOf(stop, closedStops).panics
               /\ noop' = "none"
       /\ UNCHANGED <<kill, stop, last, changes, pc, born, seen, cur, change, atKill, cfg>>

(* ----------------------------- Destroy --------------------------------- *)

\* Destroy without the check of the kill channel: it always closes it.
DestroySelectNoCheck(killClosed) == {"default"}

\* The cases of the select of Destroy that can proceed.
DestroySelect(killClosed) == IF killClosed THEN {"kill"} ELSE {"default"}

Destroy ==
    /\ ~panicked
    /\ UNCHANGED <<call, config, newErr>>
    /\ IF newErr # "nil" THEN NilMutexLock ELSE
       /\ \E branch \in DestroySelect(kill = "closed") :
            \/ /\ branch = "kill"
               /\ noop' = "Destroy"
               /\ UNCHANGED <<kill, panicked, atKill>>
            \/ /\ branch = "default"
               /\ kill' = "closed"
               /\ panicked' = (kill = "closed")
               /\ atKill' = [live |-> LiveTasks, running |-> stop \notin closedStops]
               /\ noop' = "none"
       /\ UNCHANGED <<stop, closedStops, last, changes, pc, born, seen, cur, change, cfg>>

(* ------------------------------- loop ---------------------------------- *)

\* A loop that reads o.config instead of its parameter.
ConfigOfWatcher(t) == config

\* config, the parameter of loop(config Config) of goroutine t: the value
\* o.config had at go o.loop(o.config).
ConfigOf(t) == cfg[t]

\* time.Sleep(delay); current, err := config.ScanFunc(config); then either the
\* error branch up to its send, or the two loops that fill change.stateToInfo
\* from current and o.last.
LoopScanDiff(t) ==
    /\ ~panicked
    /\ pc[t] = "sleep"
    /\ \/ \E r \in ReturnsOf(ConfigOf(t).ScanFunc) :
            /\ r.err # NilErr
            /\ change' = [change EXCEPT ![t] = [NoChange EXCEPT !.err = r.err]]
            /\ pc' = [pc EXCEPT ![t] = "sendErr"]
            /\ UNCHANGED cur
       \/ \E r \in ReturnsOf(ConfigOf(t).ScanFunc) :
            /\ r.err = NilErr
            /\ cur' = [cur EXCEPT ![t] = r.scan]
            /\ change' = [change EXCEPT ![t] =
                            [err |-> NilErr,
                             updated |-> {r.scan[p] : p \in UpdatedPaths(r.scan, last)},
                             deleted |-> {last[p] : p \in DeletedPaths(r.scan, last)}]]
            /\ pc' = [pc EXCEPT ![t] = "store"]
    /\ noop' = "none"
    /\ UNCHANGED <<call, config, newErr, kill, stop, closedStops, last, changes, born, seen,
                   panicked, atKill, cfg>>

\* The select of loop with close(config.Changes) in its stop case too.
LoopSelectStopCloses(killClosed, stopClosed) ==
    IF killClosed \/ stopClosed THEN {"kill"} ELSE {"default"}

\* The cases of the select of loop that can proceed.
LoopSelectCases(killClosed, stopClosed) ==
    IF killClosed \/ stopClosed
    THEN (IF killClosed THEN {"kill"} ELSE {}) \cup (IF stopClosed THEN {"stop"} ELSE {})
    ELSE {"default"}

\* The values the unsynchronized read of o.stop can give goroutine t: Start
\* writes o.stop under the mutex, loop reads it without, so the read gives the
\* current channel or an older one, but none older than t has read before.
ReadStop(t) == seen[t]..stop

\* return: the goroutine ends, and nothing of it is left.
Return(t) ==
    /\ pc' = [pc EXCEPT ![t] = "done"]
    /\ change' = [change EXCEPT ![t] = NoChange]
    /\ born' = [born EXCEPT ![t] = 0]
    /\ seen' = [seen EXCEPT ![t] = 0]
    /\ cfg' = [cfg EXCEPT ![t] = ZeroConfig]

\* A cycle that keeps the previous snapshot instead of storing the scanned
\* one.
CurrentDropped(t) == last

\* o.last = current: what goroutine t stores after its diff is the snapshot
\* its scan returned.
Current(t) == cur[t]

\* o.last = current, and the select at the end of a successful cycle.
LoopStoreSelect(t) ==
    /\ ~panicked
    /\ pc[t] = "store"
    /\ last' = Current(t)
    /\ cur' = [cur EXCEPT ![t] = EmptyScan]
    /\ \E c \in ReadStop(t) :
         \E branch \in LoopSelectCases(kill = "closed", c \in closedStops) :
              \/ /\ branch = "kill"
                 /\ changes' = "closed"
                 /\ panicked' = (changes = "closed")
                 /\ Return(t)
              \/ /\ branch = "stop"
                 /\ Return(t)
                 /\ UNCHANGED <<changes, panicked>>
              \/ /\ branch = "default"
                 /\ seen' = [seen EXCEPT ![t] = c]
                 /\ UNCHANGED <<born, cfg>>
                 /\ IF LenStateToInfo(change[t]) > 0
                    THEN /\ pc' = [pc EXCEPT ![t] = "send"]
                         /\ UNCHANGED change
                    ELSE /\ pc' = [pc EXCEPT ![t] = "sleep"]
                         /\ change' = [change EXCEPT ![t] = NoChange]
                 /\ UNCHANGED <<changes, panicked>>
    /\ noop' = "none"
    /\ UNCHANGED <<call, config, newErr, kill, stop, closedStops, atKill>>

\* config.Changes <- change on a closed channel panics.
LoopSendPanic(t) ==
    /\ ~panicked
    /\ pc[t] \in {"send", "sendErr"}
    /\ changes = "closed"
    /\ panicked' = TRUE
    /\ noop' = "none"
    /\ UNCHANGED <<call, config, newErr, kill, stop, closedStops, last, changes, pc, born, seen,
                   cur, change, atKill, cfg>>

(* ----------------------------- consumer -------------------------------- *)

\* A receive after which the sending goroutine ends.
ReceiveAndReturn(t) ==
    /\ ~panicked
    /\ pc[t] \in {"send", "sendErr"}
    /\ changes = "open"
    /\ pc' = [pc EXCEPT ![t] = "done"]
    /\ change' = [change EXCEPT ![t] = NoChange]
    /\ noop' = "none"
    /\ UNCHANGED <<call, config, newErr, kill, stop, closedStops, last, changes, born, seen, cur,
                   panicked, atKill, cfg>>

\* The consumer receives from config.Changes, an unbuffered channel
\* (make(chan Change)): the blocked send of goroutine t completes and t goes
\* on to its next cycle.
Receive(t) ==
    /\ ~panicked
    /\ pc[t] \in {"send", "sendErr"}
    /\ changes = "open"
    /\ pc' = [pc EXCEPT ![t] = "sleep"]
    /\ change' = [change EXCEPT ![t] = NoChange]
    /\ noop' = "none"
    /\ UNCHANGED <<call, config, newErr, kill, stop, closedStops, last, changes, born, seen, cur,
                   panicked, atKill, cfg>>

LoopStep(t) ==
    \/ LoopScanDiff(t)
    \/ LoopStoreSelect(t)
    \/ LoopSendPanic(t)

Next ==
    \/ Start
    \/ Stop
    \/ Destroy
    \/ \E t \in Tasks : LoopStep(t)
    \/ \E t \in Tasks : Receive(t)

Spec == Init /\ [][Next]_vars

\* The scheduler runs every goroutine that can take a step, and the
\* consumer receives whatever is offered on config.Changes.
FairSpec ==
    /\ Spec
    /\ \A t \in Tasks : WF_vars(LoopStep(t))
    /\ \A t \in Tasks : WF_vars(Receive(t))

\* The watcher under any configuration NewWatcher can be given.
ConfigSpec == ConfigInit /\ [][Next]_vars

\* The watcher over a directory that no scan finds changed.
SameScanSpec == SameScanInit /\ [][Next]_vars

\* w.Config().ScanFunc = f: an assignment to a field of o.config through the
\* pointer Config() returns. The parameters of the running goroutines are
\* copies of the struct and keep their field.
ConfigSetScanFunc ==
    /\ ~panicked
    /\ newErr = "nil"
    /\ \E f \in AssignedScanFuncs :
         /\ f # config.ScanFunc
         /\ config' = [config EXCEPT !.ScanFunc = f]
    /\ noop' = "none"
    /\ UNCHANGED <<call, newErr, kill, stop, closedStops, last, changes, pc, born, seen, cur,
                   change, panicked, atKill, cfg>>

\* w.Config().ScanCriteria[0] = c: a write to an element of the slice. A copy
\* of a Config copies the slice header, not the array, so that o.config and
\* the parameter of every running goroutine hold the same array.
ConfigSetScanCriteria ==
    /\ ~panicked
    /\ newErr = "nil"
    /\ \E c \in WrittenCriteria :
         /\ c # config.ScanCriteria[1]
         /\ config' = [config EXCEPT !.ScanCriteria[1] = c]
         /\ cfg' = [t \in Tasks |->
                       IF Alive(t) THEN [cfg[t] EXCEPT !.ScanCriteria[1] = c] ELSE cfg[t]]
    /\ noop' = "none"
    /\ UNCHANGED <<call, newErr, kill, stop, closedStops, last, changes, pc, born, seen, cur,
                   change, panicked, atKill>>

ConfigRefInit ==
    /\ \E c \in ChangedConfigs : c.ScanCriteria = WatchedConfig.ScanCriteria /\ NewWatcher(c)
    /\ call = NoCall

ConfigRefNext ==
    \/ Next
    \/ ConfigSetScanFunc
    \/ ConfigSetScanCriteria

\* The watcher with a caller that changes its configuration through the
\* pointer Config() returns.
ConfigRefSpec == ConfigRefInit /\ [][ConfigRefNext]_vars

(* ---------------------- functions without state ----------------------- *)

\* Bound on the length of a list of suffixes.
MaxSuffixes == 2

\* The files, modification times and matched suffixes of the snapshots that
\* are diffed.
DiffPaths == {"f1.txt", "f2.txt"}

ModTimes == {1, 2}

MatchedOns == {".txt", "txt"}

\* The ScanResults over these: maps from some of the paths to a MatchInfo of
\* that path.
Snapshots ==
    UNION {{sn \in [D -> [Path : D, ModTime : ModTimes, MatchedOn : MatchedOns]] :
               \A p \in D : sn[p].Path = p} : D \in SUBSET DiffPaths}

\* The lists of up to MaxSuffixes elements of a set.
ListsOf(elems) == UNION {[1..n -> elems] : n \in 0..MaxSuffixes}

\* The suffix lists given to the accessors of a Change Report.
AccessorSuffixes == ListsOf({".txt", "txt", ".cfg"})

\* File names and suffixes as sequences of characters.
FileNames == {<<>>, <<"t">>, <<"a", ".", "t">>, <<"a", ".", "c">>, <<"a", "t", ".", "t">>}

FileSuffixes == ListsOf({<<>>, <<"t">>, <<".", "t">>, <<".", "c">>})

\* The names of the entries of the scanned directories, in the order of
\* ioutil.ReadDir, which sorts by name.
ScanNames == <<<<"a", ".", "t">>, <<"b", ".", "c">>>>

ScanModTimes == {1, 2}

\* What a directory can hold under a name: nothing, a file with one of the
\* modification times, or one of the directories dirs.
EntriesOf(name, dirs) ==
    {<<>>}
    \cup {<<FileInfo(name, FALSE, m, Unreadable)>> : m \in ScanModTimes}
    \cup {<<FileInfo(name, TRUE, 1, d)>> : d \in dirs}

\* The listable directories whose directories are of dirs.
Listings(dirs) ==
    {[err |-> FALSE, infos |-> e1 \o e2] :
        e1 \in EntriesOf(ScanNames[1], dirs), e2 \in EntriesOf(ScanNames[2], dirs)}

\* The subdirectories of the root: listable, with files and directories that
\* are not looked into, or not listable.
SubDirs == Listings({Unreadable}) \cup {Unreadable}

\* The roots that are scanned.
RootDirs == Listings(SubDirs) \cup {Unreadable}

\* config.RefreshDelay, in seconds.
RefreshDelays == {0 - 1, 0, 1, 10, 20}

\* The calls that are looked at, before they are made.
Calls ==
    {[fn |-> "diff", returned |-> FALSE, prev |-> a, current |-> b] :
        a \in Snapshots, b \in Snapshots}
    \cup {[fn |-> "matchesSuffixes", returned |-> FALSE, s |-> n, suffixes |-> l] :
              n \in FileNames, l \in FileSuffixes}
    \cup {[fn |-> "delay", returned |-> FALSE, RefreshDelay |-> d] : d \in RefreshDelays}
    \cup {[fn |-> "scan", returned |-> FALSE, root |-> r,
           config |-> [RootDirPath |-> WatchedConfig.RootDirPath, FileSuffixes |-> l]] :
              r \in RootDirs, l \in FileSuffixes}

\* The variables of the watcher.
watcherVars == <<config, newErr, kill, stop, closedStops, last, changes, pc, born, seen,
                 cur, change, panicked, noop, atKill, cfg>>

FuncInit == NewWatcher(WatchedConfig) /\ call \in Calls

\* The two loops of a cycle on current and o.last = prev, each ranging over
\* its map in some order.
CallDiff ==
    /\ call.fn = "diff"
    /\ ~call.returned
    /\ \E co \in KeyOrders(DOMAIN call.current), lo \in KeyOrders(DOMAIN call.prev) :
         call' = [fn |-> "diff", returned |-> TRUE,
                  prev |-> call.prev, current |-> call.current,
                  stateToInfo |->
                      [updated |-> UpdatedLoop(co, call.current, call.prev),
                       deleted |-> DeletedLoop(lo, call.current, call.prev)],
                  publish |->
                      PublishesChange(
                          [updated |-> UpdatedLoop(co, call.current, call.prev),
                           deleted |-> DeletedLoop(lo, call.current, call.prev)])]
    /\ UNCHANGED watcherVars

\* The six path accessors of the report of a diff, for a list of suffixes.
CallAccessors ==
    /\ call.fn = "diff"
    /\ call.returned
    /\ \E l \in AccessorSuffixes :
         call' = [fn |-> "accessors", returned |-> TRUE,
                  stateToInfo |-> call.stateToInfo, suffixes |-> l,
                  UpdatedFilePaths |-> FilePaths(call.stateToInfo.updated),
                  DeletedFilePaths |-> FilePaths(call.stateToInfo.deleted),
                  UpdatedFilePathsWithSuffixes |->
                      FilePathsWithSuffixes(call.stateToInfo.updated, l),
                  DeletedFilePathsWithSuffixes |->
                      FilePathsWithSuffixes(call.stateToInfo.deleted, l),
                  UpdatedFilePathsWithoutSuffixes |->
                      FilePathsWithoutSuffixes(call.stateToInfo.updated, l),
                  DeletedFilePathsWithoutSuffixes |->
                      FilePathsWithoutSuffixes(call.stateToInfo.deleted, l)]
    /\ UNCHANGED watcherVars

CallMatchesSuffixes ==
    /\ call.fn = "matchesSuffixes"
    /\ ~call.returned
    /\ call' = [fn |-> "matchesSuffixes", returned |-> TRUE,
                s |-> call.s, suffixes |-> call.suffixes,
                ret |-> matchesSuffixes(call.s, call.suffixes)]
    /\ UNCHANGED watcherVars

\* The first lines of loop, up to the time.Sleep(delay) of the first cycle.
CallLoopDelay ==
    /\ call.fn = "delay"
    /\ ~call.returned
    /\ call' = [fn |-> "delay", returned |-> TRUE,
                RefreshDelay |-> call.RefreshDelay,
                delay |-> LoopDelay(call.RefreshDelay)]
    /\ UNCHANGED watcherVars

CallScanFilesInDirectory ==
    /\ call.fn = "scan"
    /\ ~call.returned
    /\ call' = [fn |-> "ScanFilesInDirectory", returned |-> TRUE,
                root |-> call.root, config |-> call.config,
                ret |-> ScanFilesInDirectory(call.config, call.root)]
    /\ UNCHANGED watcherVars

CallScanFilesInSubdirectories ==
    /\ call.fn = "scan"
    /\ ~call.returned
    /\ call' = [fn |-> "ScanFilesInSubdirectories", returned |-> TRUE,
                root |-> call.root, config |-> call.config,
                ret |-> ScanFilesInSubdirectories(call.config, call.root)]
    /\ UNCHANGED watcherVars

FuncNext ==
    \/ CallDiff
    \/ CallAccessors
    \/ CallMatchesSuffixes
    \/ CallLoopDelay
    \/ CallScanFilesInDirectory
    \/ CallScanFilesInSubdirectories

\* The functions without state, each applied to every input.
FuncSpec == FuncInit /\ [][FuncNext]_vars

TypeOK ==
    /\ call.fn \in {"none", "diff", "accessors", "matchesSuffixes", "delay", "scan",
                   "ScanFilesInDirectory", "ScanFilesInSubdirectories"}
    /\ config \in Configs \cup SameScanConfigs \cup ChangedConfigs
    /\ \A t \in Tasks : cfg[t] \in {ZeroConfig, WatchedConfig} \cup SameScanConfigs \cup ChangedConfigs
    /\ \A t \in Tasks : Alive(t) <=> cfg[t] # ZeroConfig
    /\ newErr = IsValid(config)
    /\ kill \in {"open", "closed"}
    /\ stop \in 0..MaxTasks
    /\ noop \in {"none", "Start", "Stop", "Destroy"}
    /\ \A t \in Tasks : born[t] <= seen[t] /\ seen[t] <= stop
    /\ closedStops \subseteq 0..MaxTasks
    /\ changes \in {"open", "closed"}
    /\ \A t \in Tasks :
         pc[t] \in {"none", "sleep", "store", "send", "sendErr", "done"}
    /\ panicked \in BOOLEAN

(* ------------------------------ claims --------------------------------- *)

\* A report is received by the consumer in this step.
Delivered == \E t \in Tasks : Receive(t)

\* C1: at most one polling goroutine is alive at any time.
C1_AtMostOneTask == Cardinality(LiveTasks) <= 1

\* C2: a Start on a watcher that was started and neither stopped nor destroyed
\* since (stop open, kill open) changes no control signal and spawns nothing,
\* and the Start that starts a stopped watcher spawns one goroutine.
C2_RepeatedStartIsNoop ==
    [][(Start /\ kill = "open") =>
          /\ stop \notin closedStops => UNCHANGED prog
          /\ stop \in closedStops =>
                /\ Cardinality(Spawned') = Cardinality(Spawned) + 1
                /\ stop' \notin closedStops]_vars

\* A Start has just returned early on a running watcher that has spawned one
\* goroutine, which is alive.
C2_Witness ==
    /\ noop = "Start"
    /\ kill = "open"
    /\ stop \notin closedStops
    /\ Cardinality(Spawned) = 1
    /\ Cardinality(LiveTasks) = 1

\* C3: once Destroy has returned (kill closed), no step spawns a goroutine or
\* replaces the stop channel.
C3_StartAfterDestroyIsNoop ==
    [][kill = "closed" => (Spawned' = Spawned /\ stop' = stop)]_vars

\* C4: when the goroutines that were alive as Destroy was called on a running
\* watcher have all terminated, config.Changes is closed.
C4_DestroyClosesChanges ==
    (kill = "closed" /\ atKill.running /\ atKill.live # {}
        /\ \A t \in atKill.live : pc[t] = "done")
    => changes = "closed"

\* C5: after a Destroy that found no goroutine alive, config.Changes is
\* eventually closed.
C5_IdleDestroyClosesChanges ==
    (kill = "closed" /\ atKill.live = {}) ~> (changes = "closed")

\* C6: a goroutine that reaches its select after Destroy and terminates there
\* has closed config.Changes, also when its stop channel is closed too.
C6_KillWinsOverStop ==
    [][\A t \in Tasks :
          (pc[t] = "store" /\ kill = "closed" /\ pc'[t] = "done") => changes' = "closed"]_vars

\* C7: after Destroy has returned on a running watcher, the consumer receives
\* no report.
C7_NoReportAfterDestroy ==
    [][(kill = "closed" /\ atKill.running /\ atKill.live # {}) => ~Delivered]_vars

\* C8: while the watcher is stopped by a Stop (the stop channel made by the
\* last Start is closed), the consumer receives no report.
C8_NoReportAfterStop ==
    [][(stop >= 1 /\ stop \in closedStops) => ~Delivered]_vars

\* C9: a goroutine that reaches its select after a Stop was issued while it was
\* alive (the stop channel it was spawned with is closed) terminates there.
C9_StopNeverMissed ==
    [][\A t \in Tasks :
          (pc[t] = "store" /\ born[t] \in closedStops /\ pc'[t] # "store")
          => pc'[t] = "done"]_vars

\* C10: a Stop never closes a closed channel, spawns nothing, publishes nothing
\* and leaves config.Changes open; on a watcher that is not running (never
\* started, or stopped) it changes nothing at all.
C10_StopIsIdempotent ==
    [][Stop =>
          /\ ~panicked'
          /\ UNCHANGED <<changes, pc, change, kill, stop>>
          /\ stop \in closedStops => UNCHANGED prog]_vars

\* A Stop has just returned early on a watcher that an earlier Stop stopped.
C10_Witness ==
    /\ noop = "Stop"
    /\ stop >= 1
    /\ stop \in closedStops
    /\ ~panicked
    /\ changes = "open"

\* C11: a Destroy never closes a closed channel and leaves kill closed; on a
\* destroyed watcher it changes nothing at all, in whatever state it is.
C11_DestroyIsIdempotent ==
    [][Destroy =>
          /\ ~panicked'
          /\ kill' = "closed"
          /\ kill = "closed" => UNCHANGED prog]_vars

\* A Destroy has just returned early on a destroyed watcher whose goroutine is
\* still alive.
C11_Witness ==
    /\ noop = "Destroy"
    /\ kill = "closed"
    /\ ~panicked
    /\ Cardinality(LiveTasks) = 1

\* C12: while Destroy has not been called config.Changes stays open, and the
\* Start that follows a Stop whose goroutine has ended spawns one goroutine,
\* the only one alive, on an open stop channel.
C12_StopIsResumable ==
    [][/\ kill' = "open" => changes' = "open"
       /\ (Start /\ kill = "open" /\ Spawned # {} /\ LiveTasks = {}
              /\ stop \in closedStops)
          => /\ Cardinality(Spawned') = Cardinality(Spawned) + 1
             /\ Cardinality(LiveTasks') = 1
             /\ stop' \notin closedStops]_vars

\* The first goroutine has ended after a Stop and a second Start has spawned
\* the second one; config.Changes is open.
C12_Witness ==
    /\ kill = "open"
    /\ stop = 2
    /\ stop \notin closedStops
    /\ pc[1] = "done"
    /\ pc[2] = "sleep"
    /\ born[2] = 2
    /\ changes = "open"

\* o.last is the snapshot that every successful scan finds.
LastIsTheScan ==
    \E r \in ReturnsOf(config.ScanFunc) : r.err = NilErr /\ r.scan = last

\* No goroutine holds a report with updated or deleted files.
NoPendingDiff == \A t \in Tasks : LenStateToInfo(change[t]) = 0

\* C13: when every successful scan finds the same snapshot, once it is stored
\* and no report of it is pending (it was reported, the goroutine has ended),
\* no Start and Stop bring a goroutine to compute or publish a report of
\* updated or deleted files again.
C13_SnapshotSurvivesStopStart ==
    [][(LastIsTheScan /\ NoPendingDiff) =>
          /\ LastIsTheScan' /\ NoPendingDiff'
          /\ \A t \in Tasks : Receive(t) => IsErr(change[t])]_vars

\* The snapshot was stored, the first goroutine has ended, and the goroutine
\* of the second Start has scanned the same snapshot and found nothing to
\* report.
C13_Witness ==
    /\ kill = "open"
    /\ stop = 2
    /\ stop \notin closedStops
    /\ pc[1] = "done"
    /\ pc[2] = "store"
    /\ last = SnapA
    /\ cur[2] = SnapA
    /\ change[2] = NoChange

\* C14: while the watcher is stopped (the stop channel of the last Start is
\* closed, Destroy was not called), o.last does not change.
C14_SnapshotKeptAfterStop ==
    [][(kill = "open" /\ stop >= 1 /\ stop \in closedStops) => last' = last]_vars

\* The two snapshots have the same paths with the same modification times.
SameFiles(a, b) ==
    /\ DOMAIN a = DOMAIN b
    /\ \A p \in DOMAIN a : a[p].ModTime = b[p].ModTime

\* C15: a successful scan that finds the files of o.last unmodified gives a
\* report without updated and without deleted files, and a cycle with such a
\* report does not go on to send it.
C15_NoChangeNoReport ==
    [][\A t \in Tasks :
          /\ (pc[t] = "sleep" /\ pc'[t] = "store" /\ SameFiles(cur'[t], last))
             => (change'[t].updated = {} /\ change'[t].deleted = {})
          /\ (pc[t] = "store" /\ LenStateToInfo(change[t]) = 0)
             => pc'[t] # "send"]_vars

\* The only goroutine has scanned a non-empty snapshot equal to o.last and
\* holds an empty report.
C15_Witness ==
    \E t \in Tasks :
        /\ Spawned = {t}
        /\ pc[t] = "store"
        /\ cur[t] = SnapB
        /\ last = SnapB
        /\ change[t] = NoChange

\* C16: a successful scan while o.last is empty gives a report that is no
\* error report, whose updated paths are all the paths of the scan and whose
\* deleted list is empty, and this is the report the cycle sends.
C16_FirstCycleReportsAll ==
    [][\A t \in Tasks :
          /\ (pc[t] = "sleep" /\ pc'[t] = "store" /\ last = EmptyScan)
             => /\ ~IsErr(change'[t])
                /\ UpdatedFilePaths(change'[t]) = DOMAIN cur'[t]
                /\ change'[t].updated = {cur'[t][p] : p \in DOMAIN cur'[t]}
                /\ DeletedFilePaths(change'[t]) = {}
          /\ (pc[t] = "store" /\ pc'[t] = "send") => change'[t] = change[t]]_vars

\* The first goroutine of a new watcher is sending the report of its first
\* scan, which found the two files of SnapB.
C16_Witness ==
    /\ Spawned = {1}
    /\ stop = 1
    /\ pc[1] = "send"
    /\ last = SnapB
    /\ UpdatedFilePaths(change[1]) = DOMAIN SnapB
    /\ change[1].deleted = {}

\* C17: the report of a cycle whose scan fails is an error report with a
\* non-empty ErrDetails and without updated and deleted files, and neither the
\* failing scan nor the send of the report changes o.last.
C17_ErrorReport ==
    [][\A t \in Tasks :
          /\ (pc[t] = "sleep" /\ pc'[t] = "sendErr")
             => /\ IsErr(change'[t])
                /\ ErrDetails(change'[t]) # ""
                /\ UpdatedFilePaths(change'[t]) = {}
                /\ DeletedFilePaths(change'[t]) = {}
                /\ last' = last
          /\ (pc[t] = "sendErr" /\ pc'[t] # "sendErr")
             => /\ Receive(t)
                /\ IsErr(change[t])
                /\ ErrDetails(change[t]) # ""
                /\ last' = last]_vars

\* A goroutine sends an error report while a non-empty snapshot is stored.
C17_Witness ==
    \E t \in Tasks :
        /\ pc[t] = "sendErr"
        /\ IsErr(change[t])
        /\ last = SnapB

\* C18: the report of a cycle in which the scan function failed to read the
\* root answers RootReadErr() with true.
C18_RootReadErrReported ==
    \A t \in Tasks :
        (pc[t] = "sendErr" /\ change[t].err.rootReadFailed) => RootReadErr(change[t])

\* C19: the goroutine of an error cycle does not end: once its report is
\* received it is at the start of another cycle, with o.last as it was; a
\* successful scan is diffed against o.last, and a successful cycle that
\* neither ends the goroutine nor sends a report had nothing to report.
C19_ErrorDoesNotEndTask ==
    [][\A t \in Tasks :
          /\ (pc[t] = "sendErr" /\ pc'[t] # "sendErr")
             => (pc'[t] = "sleep" /\ last' = last)
          /\ (pc[t] = "sleep" /\ pc'[t] = "store")
             => /\ last' = last
                /\ UpdatedFilePaths(change'[t]) = UpdatedPaths(cur'[t], last)
                /\ DeletedFilePaths(change'[t]) = DeletedPaths(cur'[t], last)
          /\ (pc[t] = "store" /\ pc'[t] = "sleep")
             => LenStateToInfo(change[t]) = 0]_vars

\* The only goroutine, whose stop channel is open, is in an error cycle while
\* a snapshot of an earlier cycle is stored.
C19_Witness ==
    \E t \in Tasks :
        /\ Spawned = {t}
        /\ kill = "open"
        /\ stop \notin closedStops
        /\ pc[t] = "sendErr"
        /\ last = SnapA

\* Nothing but white space, or nothing at all.
Blank(str) == \A i \in 1..Len(str) : IsSpace(str[i])

\* C20: NewWatcher returns an error exactly for a blank root path, an empty
\* criteria list, a nil channel or a nil scan function; the watcher of a
\* failed NewWatcher never has a goroutine, and the watcher of a successful
\* one is stopped until a Start spawns one.
C20_NewWatcherValidates ==
    /\ (newErr # "nil") <=>
           \/ Blank(config.RootDirPath)
           \/ Len(config.ScanCriteria) = 0
           \/ config.Changes = "nil"
           \/ config.ScanFunc.isNil
    /\ newErr # "nil" => Spawned = {}
    /\ (newErr = "nil" /\ Spawned = {}) => (stop \in closedStops /\ LiveTasks = {})

\* NewWatcher has failed on a root path of white space, and a call of the
\* watcher it returned has panicked without a goroutine.
C20_Witness ==
    /\ newErr # "nil"
    /\ config.RootDirPath = <<" ", "\t">>
    /\ config.ScanFunc.isNil = FALSE
    /\ panicked
    /\ Spawned = {}

\* A diff has returned.
DiffReturned == call.fn = "diff" /\ call.returned

\* C21: a path is in the updated list of a diff exactly if it is a key of
\* current and is no key of previous or has another modification time there;
\* the list holds the entry of current, once.
C21_UpdatedIff ==
    DiffReturned =>
        LET upd == call.stateToInfo.updated IN
        /\ \A p \in DiffPaths :
              p \in Range(FilePaths(upd)) <=>
                  /\ p \in DOMAIN call.current
                  /\ \/ p \notin DOMAIN call.prev
                     \/ call.prev[p].ModTime # call.current[p].ModTime
        /\ \A i \in 1..Len(upd) : upd[i] = call.current[upd[i].Path]
        /\ Len(upd) = Cardinality(Range(upd))
        /\ Range(FilePaths(upd)) = UpdatedPaths(call.current, call.prev)

\* A diff has returned two updated files, one of them new and one with a
\* changed modification time.
C21_Witness ==
    /\ DiffReturned
    /\ DOMAIN call.prev = {"f1.txt"}
    /\ DOMAIN call.current = {"f1.txt", "f2.txt"}
    /\ call.prev["f1.txt"].ModTime # call.current["f1.txt"].ModTime
    /\ Len(call.stateToInfo.updated) = 2

\* C22: a path is in the deleted list of a diff exactly if it is a key of
\* previous and no key of current; the list holds the entry of previous, with
\* its matched suffix, once.
C22_DeletedIff ==
    DiffReturned =>
        LET del == call.stateToInfo.deleted IN
        /\ \A p \in DiffPaths :
              p \in Range(FilePaths(del)) <=>
                  (p \in DOMAIN call.prev /\ p \notin DOMAIN call.current)
        /\ \A i \in 1..Len(del) :
              /\ del[i] = call.prev[del[i].Path]
              /\ del[i].MatchedOn = call.prev[del[i].Path].MatchedOn
        /\ Len(del) = Cardinality(Range(del))
        /\ Range(FilePaths(del)) = DeletedPaths(call.current, call.prev)

\* A diff has returned a deleted file that previous had matched on "txt",
\* while another file is in both snapshots.
C22_Witness ==
    /\ DiffReturned
    /\ DOMAIN call.prev = {"f1.txt", "f2.txt"}
    /\ DOMAIN call.current = {"f1.txt"}
    /\ call.prev["f2.txt"].MatchedOn = "txt"
    /\ Len(call.stateToInfo.deleted) = 1

\* The diff of previous = B = {f1.txt: t2, f2.txt: t3} and current = A =
\* {f1.txt: t1}, t2 different from t1, has returned.
DiffOfBAndA ==
    /\ DiffReturned
    /\ DOMAIN call.prev = {"f1.txt", "f2.txt"}
    /\ DOMAIN call.current = {"f1.txt"}
    /\ call.prev["f1.txt"].ModTime # call.current["f1.txt"].ModTime

\* C23 as stated: the diff of previous = B and current = A has no updated
\* file and the deleted file f2.txt.
C23_DiffBAAsStated ==
    DiffOfBAndA =>
        /\ FilePaths(call.stateToInfo.updated) = <<>>
        /\ FilePaths(call.stateToInfo.deleted) = <<"f2.txt">>

\* C23: the diff of previous = B and current = A has the updated file f1.txt,
\* whose modification time differs, and the deleted file f2.txt.
C23_DiffBA ==
    DiffOfBAndA =>
        /\ FilePaths(call.stateToInfo.updated) = <<"f1.txt">>
        /\ FilePaths(call.stateToInfo.deleted) = <<"f2.txt">>

\* The diff of B and A has returned, with t1 = 1, t2 = 2 and t3 = 1.
C23_Witness ==
    /\ DiffOfBAndA
    /\ call.current["f1.txt"].ModTime = 1
    /\ call.prev["f1.txt"].ModTime = 2
    /\ call.prev["f2.txt"].ModTime = 1

\* The paths of the entries of a list whose matched suffix is in suffixes.
PathsMatchedOn(list, suffixes) ==
    {i.Path : i \in {e \in Range(list) : e.MatchedOn \in Range(suffixes)}}

\* C24: for the updated list and for the deleted list of a report and every
\* list of suffixes, the With and the Without accessor return disjoint lists
\* which together hold the paths of the plain accessor, each once, and With
\* returns the paths of the entries whose matched suffix is in the list.
C24_AccessorsPartition ==
    (call.fn = "accessors") =>
        /\ Range(call.UpdatedFilePathsWithSuffixes)
              \cap Range(call.UpdatedFilePathsWithoutSuffixes) = {}
        /\ Range(call.UpdatedFilePathsWithSuffixes)
              \cup Range(call.UpdatedFilePathsWithoutSuffixes)
              = Range(call.UpdatedFilePaths)
        /\ Len(call.UpdatedFilePathsWithSuffixes)
              + Len(call.UpdatedFilePathsWithoutSuffixes) = Len(call.UpdatedFilePaths)
        /\ Range(call.UpdatedFilePathsWithSuffixes)
              = PathsMatchedOn(call.stateToInfo.updated, call.suffixes)
        /\ Range(call.DeletedFilePathsWithSuffixes)
              \cap Range(call.DeletedFilePathsWithoutSuffixes) = {}
        /\ Range(call.DeletedFilePathsWithSuffixes)
              \cup Range(call.DeletedFilePathsWithoutSuffixes)
              = Range(call.DeletedFilePaths)
        /\ Len(call.DeletedFilePathsWithSuffixes)
              + Len(call.DeletedFilePathsWithoutSuffixes) = Len(call.DeletedFilePaths)
        /\ Range(call.DeletedFilePathsWithSuffixes)
              = PathsMatchedOn(call.stateToInfo.deleted, call.suffixes)

\* The accessors have split two updated files, matched on different
\* suffixes, into one with and one without the suffixes of a list that names
\* a suffix twice.
C24_Witness ==
    /\ call.fn = "accessors"
    /\ call.suffixes = <<"txt", "txt">>
    /\ Len(call.UpdatedFilePathsWithSuffixes) = 1
    /\ Len(call.UpdatedFilePathsWithoutSuffixes) = 1

\* The goroutines that are sending a report, blocked until it is received.
Sending == {t \in Tasks : pc[t] \in {"send", "sendErr"}}

\* C25: at most one report of the watcher is waiting to be received.
C25_OnePendingReport == Cardinality(Sending) <= 1

\* Stop or Destroy has been signalled to goroutine t: kill is closed, or the
\* stop channel it was spawned with.
Signalled(t) == kill = "closed" \/ born[t] \in closedStops

\* C26: a goroutine to which Stop or Destroy has been signalled does not call
\* the scan function.
C26_NoScanAfterSignal ==
    [][\A t \in Tasks :
          (pc[t] = "sleep" /\ pc'[t] \in {"store", "sendErr"}) => ~Signalled(t)]_vars

\* suffix is a string suffix of str: str is something followed by suffix.
IsSuffixOf(suffix, str) ==
    \E n \in 0..Len(str) : SubSeq(str, n + 1, Len(str)) = suffix

\* matchesSuffixes has returned.
MatchReturned == call.fn = "matchesSuffixes" /\ call.returned

\* C27: matchesSuffixes reports a match exactly if a suffix of the list is a
\* suffix of the name, returns the one of them with the smallest index, and
\* "" without a match.
C27_FirstMatchingSuffix ==
    MatchReturned =>
        LET hits == {i \in 1..Len(call.suffixes) : IsSuffixOf(call.suffixes[i], call.s)}
        IN  /\ call.ret.matches <=> hits # {}
            /\ call.ret.matches =>
                  \E i \in hits : /\ \A j \in hits : i <= j
                                   /\ call.ret.suffix = call.suffixes[i]
            /\ ~call.ret.matches => call.ret.suffix = <<>>

\* matchesSuffixes has returned the first of two different suffixes of the
\* list that are both suffixes of the name.
C27_Witness ==
    /\ MatchReturned
    /\ call.s = <<"a", ".", "t">>
    /\ call.suffixes = <<<<"t">>, <<".", "t">>>>
    /\ call.ret.matches
    /\ call.ret.suffix = <<"t">>

\* C28: the delay of loop is config.RefreshDelay if that is greater than
\* zero, and 10 seconds if it is zero or negative.
C28_DelayDefault ==
    (call.fn = "delay" /\ call.returned) =>
        /\ call.RefreshDelay > 0 => call.delay = call.RefreshDelay
        /\ call.RefreshDelay <= 0 => call.delay = 10

\* The delay for a negative RefreshDelay has been computed.
C28_Witness ==
    /\ call.fn = "delay"
    /\ call.returned
    /\ call.RefreshDelay < 0
    /\ call.delay = 10

\* C29: a goroutine to which Stop or Destroy has been signalled does not go
\* on to send a report, be it an error report.
C29_CheckBeforePublish ==
    [][\A t \in Tasks :
          (pc[t] \notin {"send", "sendErr"} /\ pc'[t] \in {"send", "sendErr"})
          => ~Signalled(t)]_vars

\* C30: the goroutine of a watcher that was started once ends after a Stop or
\* Destroy was signalled to it, unless a later Start spawns another goroutine
\* or the program panics.
C30_SignalEndsTask ==
    \A t \in Tasks :
        (Spawned = {t} /\ Alive(t) /\ Signalled(t))
        ~> (pc[t] = "done" \/ panicked \/ Spawned # {t})

\* C31: the step that ends the diff of a successful cycle stores the snapshot
\* of that cycle's scan, whether the goroutine then goes on to send, goes back
\* to sleep with an empty diff, or returns on Stop or Destroy.
C31_StoresScanned ==
    [][\A t \in Tasks :
          (pc[t] = "store" /\ pc'[t] # "store")
          => /\ last' = cur[t]
             /\ pc'[t] \in {"send", "sleep", "done"}]_vars

\* A goroutine has returned on Stop or Destroy and the stored snapshot is the
\* non-empty one it scanned in that cycle.
C31_Witness ==
    \E t \in Tasks :
        /\ pc[t] = "done"
        /\ last # EmptyScan
        /\ changes = "open"
        /\ Spawned = {t}
        /\ ~panicked

\* The goroutines that are about to execute o.last = current.
Writers == {t \in Tasks : pc[t] = "store"}

\* C32: Start, Stop and Destroy leave o.last unchanged, only the store of a
\* goroutine's successful cycle changes it, and at most one goroutine is about
\* to write it at any time.
C32_OneWriterOfLast ==
    [][/\ (Start \/ Stop \/ Destroy) => last' = last
       /\ last' # last => \E t \in Writers : pc'[t] # "store"
       /\ Cardinality(Writers) <= 1]_vars

\* C35: as long as no Start has spawned a goroutine the watcher is as
\* NewWatcher made it but for its signals: nothing is scanned, stored or
\* published, and Stop and Destroy calls neither spawn a goroutine nor panic.
C35_NewWatcherIsStopped ==
    [][Spawned = {}
       => /\ last = EmptyScan /\ changes = "open"
          /\ \A t \in Tasks : cur[t] = EmptyScan /\ change[t] = NoChange
          /\ ~Delivered
          /\ ~Start => (Spawned' = {} /\ ~panicked')]_vars

\* Stop was called on the watcher NewWatcher returned, before any Start: it
\* returned without doing anything.
C35_Witness ==
    /\ noop = "Stop"
    /\ Spawned = {}
    /\ newErr = "nil"
    /\ stop = 0
    /\ kill = "open"

\* C36: no goroutine executes close(config.Changes) when config.Changes is
\* closed already.
C36_ChangesClosedOnce ==
    [][\A t \in Tasks :
          (pc[t] = "store" /\ pc'[t] = "done" /\ changes = "closed")
          => ~(panicked' /\ ~panicked)]_vars

\* C37: no goroutine is at config.Changes <- change, with an error report or
\* a change report, while config.Changes is closed.
C37_NoSendOnClosed == changes = "closed" => Sending = {}

\* C38: a successful cycle whose diff is not empty goes on to send its
\* report, unless Destroy was called; a Stop that the cycle observes does not
\* make it drop the diff of the snapshot it has stored.
C38_NoChangeAbsorbed ==
    [][\A t \in Tasks :
          (pc[t] = "store" /\ pc'[t] # "store" /\ kill = "open"
           /\ LenStateToInfo(change[t]) > 0)
          => pc'[t] = "send"]_vars

\* The entries of a listing that are files whose name ends with one of the
\* suffixes.
MatchingFiles(infos, suffixes) ==
    {i \in 1..Len(infos) :
        /\ ~infos[i].IsDir
        /\ \E k \in 1..Len(suffixes) : IsSuffixOf(suffixes[k], infos[i].Name)}

\* info is what a scan records under path for the entry fi: the path, the
\* modification time of the entry and the first suffix of the list that its
\* name ends with.
Records(info, path, fi, suffixes) ==
    /\ info.Path = path
    /\ info.ModTime = fi.ModTime
    /\ \E k \in 1..Len(suffixes) :
          /\ info.MatchedOn = suffixes[k]
          /\ IsSuffixOf(suffixes[k], fi.Name)
          /\ \A j \in 1..(k - 1) : ~IsSuffixOf(suffixes[j], fi.Name)

\* C33: ScanFilesInDirectory of a root that can be listed returns no error and
\* a snapshot whose keys are the paths root/name of the root's entries that
\* are no directories and whose name ends with a configured suffix, each with
\* its modification time and first matching suffix; no path of a file in a
\* subdirectory is a key.
C33_FlatScan ==
    (call.fn = "ScanFilesInDirectory" /\ ~call.root.err) =>
        LET infos == call.root.infos
            sfx == call.config.FileSuffixes
            rootPath == call.config.RootDirPath
            res == call.ret.scan
        IN  /\ call.ret.err = NilErr
            /\ DOMAIN res =
                  {rootPath \o <<"/">> \o infos[i].Name : i \in MatchingFiles(infos, sfx)}
            /\ \A i \in MatchingFiles(infos, sfx) :
                  Records(res[rootPath \o <<"/">> \o infos[i].Name],
                          rootPath \o <<"/">> \o infos[i].Name, infos[i], sfx)
            /\ \A i \in 1..Len(infos) : \A j \in 1..Len(infos[i].dir.infos) :
                  (rootPath \o <<"/">> \o infos[i].Name \o <<"/">>
                   \o infos[i].dir.infos[j].Name) \notin DOMAIN res

\* A flat scan has returned the one matching file of a root that also holds a
\* directory with a matching name and a matching file in it.
C33_Witness ==
    /\ call.fn = "ScanFilesInDirectory"
    /\ ~call.root.err
    /\ call.config.FileSuffixes = <<<<".", "c">>, <<"t">>>>
    /\ Len(call.root.infos) = 2
    /\ call.root.infos[1].IsDir
    /\ ~call.root.infos[1].dir.err
    /\ Len(call.root.infos[1].dir.infos) = 1
    /\ ~call.root.infos[1].dir.infos[1].IsDir
    /\ ~call.root.infos[2].IsDir
    /\ call.root.infos[2].ModTime = 2
    /\ call.ret.scan =
          <<"/", "d", "/", "b", ".", "c">>
              :> MatchInfo(<<"/", "d", "/", "b", ".", "c">>, 2, <<".", "c">>)

\* The directories of the root that can be listed.
ListableSubdirs(infos) ==
    {i \in 1..Len(infos) : infos[i].IsDir /\ ~infos[i].dir.err}

\* C34: ScanFilesInSubdirectories returns an error exactly if the root cannot
\* be listed; otherwise the keys of its snapshot are the paths root/sub/name
\* of the matching files in the subdirectories of the root that can be
\* listed, each with its modification time and first matching suffix: a
\* subdirectory that cannot be listed adds nothing, and no path of a file of
\* the root itself is a key.
C34_NestedScan ==
    call.fn = "ScanFilesInSubdirectories" =>
        LET infos == call.root.infos
            sfx == call.config.FileSuffixes
            rootPath == call.config.RootDirPath
            res == call.ret.scan
            SubPath(i) == rootPath \o <<"/">> \o infos[i].Name
        IN  /\ call.ret.err # NilErr <=> call.root.err
            /\ call.root.err => call.ret.err.rootReadFailed
            /\ ~call.root.err =>
                  /\ DOMAIN res =
                        UNION {{SubPath(i) \o <<"/">> \o infos[i].dir.infos[j].Name :
                                   j \in MatchingFiles(infos[i].dir.infos, sfx)} :
                               i \in ListableSubdirs(infos)}
                  /\ \A i \in ListableSubdirs(infos) :
                        \A j \in MatchingFiles(infos[i].dir.infos, sfx) :
                            Records(res[SubPath(i) \o <<"/">> \o infos[i].dir.infos[j].Name],
                                    SubPath(i) \o <<"/">> \o infos[i].dir.infos[j].Name,
                                    infos[i].dir.infos[j], sfx)
                  /\ \A i \in 1..Len(infos) : SubPath(i) \notin DOMAIN res

\* A nested scan has returned without error the matching file of the one
\* listable subdirectory of a root that also holds a subdirectory that
\* cannot be listed.
C34_Witness ==
    /\ call.fn = "ScanFilesInSubdirectories"
    /\ ~call.root.err
    /\ Len(call.root.infos) = 2
    /\ call.root.infos[1].IsDir /\ call.root.infos[1].dir.err
    /\ call.root.infos[2].IsDir /\ ~call.root.infos[2].dir.err
    /\ call.ret.err = NilErr
    /\ DOMAIN call.ret.scan = {<<"/", "d", "/", "b", ".", "c", "/", "a", ".", "t">>}

\* C40: a diff that is published has an updated or a deleted path, no path
\* is in both of its lists, and no path is twice in one list.
C40_PublishedDiffLists ==
    (DiffReturned /\ call.publish) =>
        LET u == FilePaths(call.stateToInfo.updated)
            d == FilePaths(call.stateToInfo.deleted)
        IN  /\ Len(u) + Len(d) >= 1
            /\ \A i \in 1..Len(u) : \A j \in 1..Len(d) : u[i] # d[j]
            /\ \A i, j \in 1..Len(u) : u[i] = u[j] => i = j
            /\ \A i, j \in 1..Len(d) : d[i] = d[j] => i = j

\* A published diff with two updated paths, and none deleted.
C40_Witness ==
    /\ DiffReturned
    /\ call.publish
    /\ Len(call.stateToInfo.updated) = 2
    /\ Len(call.stateToInfo.deleted) = 0

\* The parameter of a goroutine that runs on is as it was, in all its fields
\* or in the scan function.
KeepsConfig(t) == (Alive(t) /\ Alive(t)') => cfg'[t] = cfg[t]

KeepsScanFunc(t) == (Alive(t) /\ Alive(t)') => cfg'[t].ScanFunc = cfg[t].ScanFunc

\* The goroutine a Start spawns gets the configuration the watcher has at
\* that Start.
SpawnedWithConfig(t) == (pc[t] = "none" /\ pc'[t] # "none") => cfg'[t] = config

\* A successful scan of a goroutine is a call of the scan function of its
\* parameter.
ScansWithOwnFunc(t) ==
    (pc[t] = "sleep" /\ pc'[t] = "store")
    => \E r \in ReturnsOf(cfg[t].ScanFunc) : r.err = NilErr /\ cur'[t] = r.scan

====
